---- MODULE Spec2Model ----
(***************************************************************************)
(* Salary Tax Calculator (India, US, UK): the progressive band calculator, *)
(* the regime configuration table, the payroll extras, the derived values  *)
(* of the component and its form handlers.                                 *)
(*                                                                         *)
(* Numbers.  Amounts entered in the form are modelled as integers.  Taxes  *)
(* are products of an integer amount and a rate; every rate of the source  *)
(* is a multiple of 1/2000 (0.0145 = 29/2000), so a tax is an exact        *)
(* rational with denominator 2000, kept as [w, f] = w + f/2000 with        *)
(* 0 <= f < 2000.  The model is therefore real arithmetic: the rounding of *)
(* IEEE doubles is not modelled.                                           *)
(***************************************************************************)
EXTENDS Integers, Sequences, FiniteSets, TLC

VARIABLES
    country, amount, period, standardDeduction, otherDeductions, params,
    effectPending,          \* the [country] effect is scheduled, not yet run
    url,                    \* the "calc" entry of window.location.search
    income, bands, ret,     \* one call of calcProgressiveTax: arguments, return
    pc                      \* "mounted"/"handled" (component), "call"/"return"

vars == <<country, amount, period, standardDeduction, otherDeductions, params,
          effectPending, url, income, bands, ret, pc>>

uiVars == <<country, amount, period, standardDeduction, otherDeductions, params,
            effectPending, url>>

callVars == <<income, bands, ret, pc>>

-----------------------------------------------------------------------------
(* Bounds of the generic band lists handed to calcProgressiveTax *)

MaxBands == 3

MaxUpto == 3

MaxIncome == 5

-----------------------------------------------------------------------------
(* Exact arithmetic on taxes *)

RateDenominator == 2000

Min(a, b) == IF a <= b THEN a ELSE b

Max(a, b) == IF a >= b THEN a ELSE b

\* the rate n/d as a number of 1/2000ths
Rate(n, d) == (n * RateDenominator) \div d

Norm(w, n) == [w |-> w + (n \div RateDenominator), f |-> n % RateDenominator]

Money(n) == [w |-> n, f |-> 0]

\* amount * rate, amount an integer, rate in 1/2000ths
MulRate(a, r) ==
    Norm((a \div RateDenominator) * r, (a % RateDenominator) * r)

\* "total = sliceTax" written for "total += sliceTax"
MAddOverwrites(x, y) == y

MAdd(x, y) == Norm(x.w + y.w, x.f + y.f)

MSub(x, y) == Norm(x.w - y.w, x.f - y.f)

MLeq(x, y) == x.w < y.w \/ (x.w = y.w /\ x.f <= y.f)

MMax(x, y) == IF MLeq(x, y) THEN y ELSE x

-----------------------------------------------------------------------------
(* Band: { upto: number | null; rate: number } *)

null == <<>>

Num(n) == <<n>>

Band(u, r) == [upto |-> u, rate |-> r]

\* "band.upto ?? 0" written for "band.upto ?? Infinity"
CapMissingIsZero(band) == IF band.upto = null THEN Num(0) ELSE band.upto

\* band.upto ?? Infinity, with Infinity written as null
Cap(band) == band.upto

-----------------------------------------------------------------------------
(* calcProgressiveTax: the loop over the bands from index i on *)

\* the boundary counted into the band below it: cap - lastCap + 1
sliceAmountInclusive(remaining, cap, lastCap) ==
    IF cap = null THEN Max(0, remaining)
    ELSE Max(0, Min(remaining, cap[1] - lastCap[1] + 1))

\* Math.max(0, Math.min(remaining, cap - lastCap)); Infinity - lastCap is
\* Infinity, lastCap being finite whenever the loop is still running
sliceAmountOf(remaining, cap, lastCap) ==
    IF cap = null THEN Max(0, remaining)
    ELSE Max(0, Min(remaining, cap[1] - lastCap[1]))

\* "if (sliceAmount >= 0)" written for "if (sliceAmount > 0)"
recordedAlways(sliceAmount) == sliceAmount >= 0

\* if (sliceAmount > 0)
recorded(sliceAmount) == sliceAmount > 0

RECURSIVE BandLoop(_, _, _, _, _, _)
BandLoop(bs, i, remaining, lastCap, total, acc) ==
    IF i > Len(bs) THEN [tax |-> total, slices |-> acc]
    ELSE
      LET band == bs[i]
          cap == Cap(band)
          sliceAmount == sliceAmountOf(remaining, cap, lastCap)
          sliceTax == MulRate(sliceAmount, band.rate)
          taken == recorded(sliceAmount)
          slices2 == IF taken
                     THEN Append(acc, [amount |-> sliceAmount,
                                          rate |-> band.rate, tax |-> sliceTax])
                     ELSE acc
          total2 == IF taken THEN MAdd(total, sliceTax) ELSE total
          remaining2 == IF taken THEN remaining - sliceAmount ELSE remaining
          lastCap2 == IF taken THEN cap ELSE lastCap
      IN  IF remaining2 <= 0
          THEN [tax |-> total2, slices |-> slices2]
          ELSE BandLoop(bs, i + 1, remaining2, lastCap2, total2, slices2)

calcProgressiveTax(inc, bs) ==
    BandLoop(bs, 1, Max(0, inc), Num(0), Money(0), <<>>)

-----------------------------------------------------------------------------
(* taxConfigs: the regime table *)

CountryKey == {"india-new", "india-old", "us", "uk"}

FilingStatusUS == {"single", "married"}

emptyParams == [k \in {} |-> TRUE]

\* p?.k ?? d
Get(p, k, d) == IF k \in DOMAIN p THEN p[k] ELSE d

\* { ...p, k: v }
Spread(p, k, v) == [j \in DOMAIN p \cup {k} |-> IF j = k THEN v ELSE p[j]]

indiaNewBands ==
    << Band(Num(300000), Rate(0, 100)),  Band(Num(700000), Rate(5, 100)),
       Band(Num(1000000), Rate(10, 100)), Band(Num(1200000), Rate(15, 100)),
       Band(Num(1500000), Rate(20, 100)), Band(null, Rate(30, 100)) >>

indiaOldBands ==
    << Band(Num(250000), Rate(0, 100)),  Band(Num(500000), Rate(5, 100)),
       Band(Num(1000000), Rate(20, 100)), Band(null, Rate(30, 100)) >>

usMarriedBands ==
    << Band(Num(22000), Rate(10, 100)),  Band(Num(94000), Rate(12, 100)),
       Band(Num(201000), Rate(22, 100)), Band(Num(383000), Rate(24, 100)),
       Band(Num(487000), Rate(32, 100)), Band(Num(732000), Rate(35, 100)),
       Band(null, Rate(37, 100)) >>

usSingleBands ==
    << Band(Num(11000), Rate(10, 100)),  Band(Num(47000), Rate(12, 100)),
       Band(Num(100000), Rate(22, 100)), Band(Num(191000), Rate(24, 100)),
       Band(Num(243000), Rate(32, 100)), Band(Num(366000), Rate(35, 100)),
       Band(null, Rate(37, 100)) >>

usBands(p) ==
    IF Get(p, "filing", "single") = "married" THEN usMarriedBands
    ELSE usSingleBands

\* the allowance hard-coded: the parameter is ignored
ukBandsFixedAllowance(p) ==
    << Band(Num(12570), Rate(0, 100)),
       Band(Num(50270), Rate(20, 100)),
       Band(Num(125140), Rate(40, 100)),
       Band(null, Rate(45, 100)) >>

ukBands(p) ==
    << Band(Num(Get(p, "personalAllowance", 12570)), Rate(0, 100)),
       Band(Num(50270), Rate(20, 100)),
       Band(Num(125140), Rate(40, 100)),
       Band(null, Rate(45, 100)) >>

cfgBands(c, p) ==
    CASE c = "india-new" -> indiaNewBands
      [] c = "india-old" -> indiaOldBands
      [] c = "us" -> usBands(p)
      [] c = "uk" -> ukBands(p)

ssWageCap == 168600

\* FICA charged on the taxable income instead of the gross income
usExtrasOnTaxable(taxable, gross, p) ==
    IF Get(p, "includeFICA", FALSE)
    THEN LET socialSecurity == MulRate(Min(taxable, ssWageCap), Rate(62, 1000))
             medicare == MulRate(taxable, Rate(145, 10000))
         IN  << [label |-> "Social Security (6.2%)", amount |-> socialSecurity],
                [label |-> "Medicare (1.45%)", amount |-> medicare] >>
    ELSE <<>>

\* Social Security without the wage cap
usExtrasUncapped(taxable, gross, p) ==
    IF Get(p, "includeFICA", FALSE)
    THEN LET socialSecurity == MulRate(gross, Rate(62, 1000))
             medicare == MulRate(gross, Rate(145, 10000))
         IN  << [label |-> "Social Security (6.2%)", amount |-> socialSecurity],
                [label |-> "Medicare (1.45%)", amount |-> medicare] >>
    ELSE <<>>

usExtras(taxable, gross, p) ==
    IF Get(p, "includeFICA", FALSE)
    THEN LET socialSecurity == MulRate(Min(gross, ssWageCap), Rate(62, 1000))
             medicare == MulRate(gross, Rate(145, 10000))
         IN  << [label |-> "Social Security (6.2%)", amount |-> socialSecurity],
                [label |-> "Medicare (1.45%)", amount |-> medicare] >>
    ELSE <<>>

primaryThreshold == 12570

upperEarningsLimit == 50270

ukExtras(taxable, gross, p) ==
    IF Get(p, "includeNI", FALSE)
    THEN LET niLower == MulRate(Max(0, Min(gross, upperEarningsLimit)
                                        - primaryThreshold), Rate(8, 100))
             niUpper == MulRate(Max(0, gross - upperEarningsLimit), Rate(2, 100))
         IN  << [label |-> "National Insurance (employee)",
                 amount |-> MAdd(niLower, niUpper)] >>
    ELSE <<>>

\* cfg.extras ? cfg.extras(taxableBase, grossAnnual, params) : []
cfgExtras(c, taxable, gross, p) ==
    CASE c = "us" -> usExtras(taxable, gross, p)
      [] c = "uk" -> ukExtras(taxable, gross, p)
      [] OTHER -> <<>>

cfgDefaults(c) == [standardDeduction |-> 0, otherDeductions |-> 0]

\* cfg.defaultParams ?? {}
cfgDefaultParams(c) ==
    CASE c = "us" -> [filing |-> "single", includeFICA |-> TRUE]
      [] c = "uk" -> [includeNI |-> TRUE, personalAllowance |-> 12570]
      [] OTHER -> emptyParams

-----------------------------------------------------------------------------
(* The values SalaryTaxCalculator derives from its state in a render *)

compute(s) ==
    LET grossAnnual_ == IF s.period = "annual" THEN s.amount ELSE s.amount * 12
        deductions_ == Max(0, s.standardDeduction + s.otherDeductions)
        taxableBase_ == Max(0, grossAnnual_ - deductions_)
        calc == calcProgressiveTax(taxableBase_, cfgBands(s.country, s.params))
        extras_ == cfgExtras(s.country, taxableBase_, grossAnnual_, s.params)
        sumTo[i \in 0..Len(extras_)] ==
            IF i = 0 THEN Money(0) ELSE MAdd(sumTo[i - 1], extras_[i].amount)
        extraTotal_ == sumTo[Len(extras_)]
        totalTax_ == MAdd(calc.tax, extraTotal_)
    IN  [grossAnnual |-> grossAnnual_, deductions |-> deductions_,
         taxableBase |-> taxableBase_, incomeTax |-> calc.tax,
         slices |-> calc.slices, extras |-> extras_, extraTotal |-> extraTotal_,
         totalTax |-> totalTax_,
         netAnnual |-> MMax(Money(0), MSub(Money(grossAnnual_), totalTax_))]

\* the object handed to useQueryState
state ==
    [country |-> country, amount |-> amount, period |-> period,
     standardDeduction |-> standardDeduction,
     otherDeductions |-> otherDeductions, params |-> params]

result == compute(state)

grossAnnual == result.grossAnnual

deductions == result.deductions

taxableBase == result.taxableBase

incomeTax == result.incomeTax

slices == result.slices

extras == result.extras

totalTax == result.totalTax

netAnnual == result.netAnnual

-----------------------------------------------------------------------------
(* What the form can supply *)

\* the text of a number field: empty, or the decimal text of a number
AmountTexts == {<<>>} \cup {<<n>> : n \in {-1000, 13000, 40000, 200000, 1200000}}

DeductionTexts == {<<>>} \cup {<<n>> : n \in {-5000, 10000}}

AllowanceTexts == {<<>>} \cup {<<n>> : n \in {12570, 15000, 60000}}

\* Number(e.target.value || 0)
NumberOrZero(text) == IF text = <<>> THEN 0 ELSE text[1]

\* Slider: max 5000000, step 1000
SliderValues == {0, 13000, 40000, 200000, 1200000, 5000000}

-----------------------------------------------------------------------------
(* The component: state after the first render, and the handlers *)

initialState ==
    [country |-> "india-new", amount |-> 1200000, period |-> "annual",
     standardDeduction |-> cfgDefaults("india-new").standardDeduction,
     otherDeductions |-> cfgDefaults("india-new").otherDeductions,
     params |-> cfgDefaultParams("india-new")]

NoUrl == <<>>

NoRet == [tax |-> Money(0), slices |-> <<>>]

UIInit ==
    /\ country = initialState.country
    /\ amount = initialState.amount
    /\ period = initialState.period
    /\ standardDeduction = initialState.standardDeduction
    /\ otherDeductions = initialState.otherDeductions
    /\ params = initialState.params
    /\ effectPending = FALSE
    /\ url = NoUrl

\* pc = "mounted": the page has been loaded and no handler has run since
CallIdle == income = 0 /\ bands = <<>> /\ ret = NoRet /\ pc = "mounted"

Init == UIInit /\ CallIdle

\* Select onValueChange -> setCountry; the [country] effect is scheduled
SetCountry ==
    /\ ~effectPending
    /\ \E v \in CountryKey \ {country} : country' = v
    /\ effectPending' = TRUE
    /\ pc' = "handled"
    /\ UNCHANGED <<amount, period, standardDeduction, otherDeductions, params,
                   url, income, bands, ret>>

\* the effect resetting the deductions but leaving the params of the old regime
CountryEffectKeepsParams ==
    /\ effectPending
    /\ standardDeduction' = cfgDefaults(country).standardDeduction
    /\ otherDeductions' = cfgDefaults(country).otherDeductions
    /\ effectPending' = FALSE
    /\ pc' = "handled"
    /\ UNCHANGED <<country, amount, period, params, url, income, bands, ret>>

\* React.useEffect(..., [country]): reset deductions & params
CountryEffect ==
    /\ effectPending
    /\ standardDeduction' = cfgDefaults(country).standardDeduction
    /\ otherDeductions' = cfgDefaults(country).otherDeductions
    /\ params' = cfgDefaultParams(country)
    /\ effectPending' = FALSE
    /\ pc' = "handled"
    /\ UNCHANGED <<country, amount, period, url, income, bands, ret>>

SetFiling ==
    /\ ~effectPending /\ country = "us"
    /\ \E v \in FilingStatusUS : params' = Spread(params, "filing", v)
    /\ pc' = "handled"
    /\ UNCHANGED <<country, amount, period, standardDeduction, otherDeductions,
                   effectPending, url, income, bands, ret>>

SetIncludeFICA ==
    /\ ~effectPending /\ country = "us"
    /\ \E c \in BOOLEAN : params' = Spread(params, "includeFICA", c)
    /\ pc' = "handled"
    /\ UNCHANGED <<country, amount, period, standardDeduction, otherDeductions,
                   effectPending, url, income, bands, ret>>

SetPersonalAllowance ==
    /\ ~effectPending /\ country = "uk"
    /\ \E t \in AllowanceTexts :
          params' = Spread(params, "personalAllowance", NumberOrZero(t))
    /\ pc' = "handled"
    /\ UNCHANGED <<country, amount, period, standardDeduction, otherDeductions,
                   effectPending, url, income, bands, ret>>

SetIncludeNI ==
    /\ ~effectPending /\ country = "uk"
    /\ \E c \in BOOLEAN : params' = Spread(params, "includeNI", c)
    /\ pc' = "handled"
    /\ UNCHANGED <<country, amount, period, standardDeduction, otherDeductions,
                   effectPending, url, income, bands, ret>>

SetPeriod ==
    /\ ~effectPending
    /\ \E v \in {"annual", "monthly"} : period' = v
    /\ pc' = "handled"
    /\ UNCHANGED <<country, amount, standardDeduction, otherDeductions, params,
                   effectPending, url, income, bands, ret>>

SetAmount ==
    /\ ~effectPending
    /\ \E t \in AmountTexts : amount' = NumberOrZero(t)
    /\ pc' = "handled"
    /\ UNCHANGED <<country, period, standardDeduction, otherDeductions, params,
                   effectPending, url, income, bands, ret>>

SlideAmount ==
    /\ ~effectPending
    /\ \E v \in SliderValues : amount' = v
    /\ pc' = "handled"
    /\ UNCHANGED <<country, period, standardDeduction, otherDeductions, params,
                   effectPending, url, income, bands, ret>>

SetStandardDeduction ==
    /\ ~effectPending
    /\ \E t \in DeductionTexts : standardDeduction' = NumberOrZero(t)
    /\ pc' = "handled"
    /\ UNCHANGED <<country, amount, period, otherDeductions, params,
                   effectPending, url, income, bands, ret>>

SetOtherDeductions ==
    /\ ~effectPending
    /\ \E t \in DeductionTexts : otherDeductions' = NumberOrZero(t)
    /\ pc' = "handled"
    /\ UNCHANGED <<country, amount, period, standardDeduction, params,
                   effectPending, url, income, bands, ret>>

Reset ==
    /\ ~effectPending
    /\ amount' = 1200000
    /\ standardDeduction' = cfgDefaults(country).standardDeduction
    /\ otherDeductions' = cfgDefaults(country).otherDeductions
    /\ params' = cfgDefaultParams(country)
    /\ pc' = "handled"
    /\ UNCHANGED <<country, period, effectPending, url, income, bands, ret>>

Next ==
    \/ SetCountry \/ CountryEffect
    \/ SetFiling \/ SetIncludeFICA \/ SetPersonalAllowance \/ SetIncludeNI
    \/ SetPeriod \/ SetAmount \/ SlideAmount
    \/ SetStandardDeduction \/ SetOtherDeductions \/ Reset

Spec == Init /\ [][Next]_vars

-----------------------------------------------------------------------------
(* Shareable URL state: useQueryState *)

RECURSIVE Digits(_)
Digits(n) == IF n < 10 THEN <<n>> ELSE Append(Digits(n \div 10), n % 10)

\* JSON text of a number
NumberText(n) ==
    IF n < 0 THEN [sign |-> "-", digits |-> Digits(-n)]
    ELSE [sign |-> "", digits |-> Digits(n)]

RECURSIVE DigitsValue(_)
DigitsValue(d) ==
    IF Len(d) = 0 THEN 0
    ELSE 10 * DigitsValue(SubSeq(d, 1, Len(d) - 1)) + d[Len(d)]

ParseNumber(t) ==
    IF t.sign = "-" THEN 0 - DigitsValue(t.digits) ELSE DigitsValue(t.digits)

StringText(v) == <<"\"", v, "\"">>

ParseString(t) == t[2]

BoolText(b) == IF b THEN <<"true">> ELSE <<"false">>

ParseBool(t) == t = <<"true">>

NumberKeys == {"amount", "standardDeduction", "otherDeductions",
               "personalAllowance"}

StringKeys == {"country", "period", "filing"}

ValueText(k, v) ==
    IF k \in NumberKeys THEN NumberText(v)
    ELSE IF k \in StringKeys THEN StringText(v)
    ELSE BoolText(v)

ParseValue(k, t) ==
    IF k \in NumberKeys THEN ParseNumber(t)
    ELSE IF k \in StringKeys THEN ParseString(t)
    ELSE ParseBool(t)

ObjectText(o) == [k \in DOMAIN o |-> ValueText(k, o[k])]

ParseObject(t) == [k \in DOMAIN t |-> ParseValue(k, t[k])]

JSONstringify(s) ==
    [k \in DOMAIN s |->
        IF k = "params" THEN ObjectText(s[k]) ELSE ValueText(k, s[k])]

JSONparse(t) ==
    [k \in DOMAIN t |->
        IF k = "params" THEN ParseObject(t[k]) ELSE ParseValue(k, t[k])]

btoa(text) == <<"base64", text>>

atob(b) == b[2]

\* { ...a, ...b }
SpreadAll(a, b) ==
    [k \in DOMAIN a \cup DOMAIN b |-> IF k \in DOMAIN b THEN b[k] ELSE a[k]]

\* the setter SalaryTaxCalculator hands to useQueryState: () => {}
setState(current, s) == current

\* the mount effect of useQueryState, run on the state of the first render
ReadQuery(current) ==
    IF url # NoUrl
    THEN setState(current, SpreadAll(current, JSONparse(atob(url))))
    ELSE current

\* Save URL State: write()
WriteQuery ==
    /\ ~effectPending
    /\ url' = btoa(JSONstringify(state))
    /\ pc' = "handled"
    /\ UNCHANGED <<country, amount, period, standardDeduction, otherDeductions,
                   params, effectPending, income, bands, ret>>

\* the page is loaded from the current URL: first render, then the mount
\* effects in order ([country] effect, then the useQueryState effect)
PageLoad ==
    /\ LET first == initialState
           afterCountryEffect ==
               [first EXCEPT
                  !.standardDeduction = cfgDefaults(first.country).standardDeduction,
                  !.otherDeductions = cfgDefaults(first.country).otherDeductions,
                  !.params = cfgDefaultParams(first.country)]
           loaded == ReadQuery(afterCountryEffect)
       IN  /\ country' = loaded.country
           /\ amount' = loaded.amount
           /\ period' = loaded.period
           /\ standardDeduction' = loaded.standardDeduction
           /\ otherDeductions' = loaded.otherDeductions
           /\ params' = loaded.params
    /\ effectPending' = FALSE
    /\ pc' = "mounted"
    /\ UNCHANGED <<url, income, bands, ret>>

\* the inputs exercised together with the URL
UrlScope ==
    /\ amount \in {40000, 1200000}
    /\ standardDeduction \in {0, 10000}
    /\ otherDeductions = 0
    /\ Get(params, "personalAllowance", 12570) \in {12570, 15000}

NextUrl == (Next /\ UrlScope') \/ WriteQuery \/ PageLoad

SpecUrl == Init /\ [][NextUrl]_vars

-----------------------------------------------------------------------------
(* calcProgressiveTax as a pure function: one call on drawn arguments *)

RateSamples == {Rate(5, 100), Rate(20, 100)}

GenericBand ==
    {Band(u, r) : u \in {null} \cup {Num(n) : n \in 0..MaxUpto}, r \in RateSamples}

GenericBandLists ==
    UNION {[1..n -> GenericBand] : n \in 1..MaxBands}

\* the two-band partition [{upto: 100, rate: 0}, {upto: null, rate: 0.1}]
TwoBand == << Band(Num(100), Rate(0, 100)), Band(null, Rate(10, 100)) >>

RegimeParams(c) ==
    CASE c = "us" -> {[filing |-> f, includeFICA |-> b] :
                         f \in FilingStatusUS, b \in BOOLEAN}
      [] c = "uk" -> {[includeNI |-> b, personalAllowance |-> NumberOrZero(t)] :
                         b \in BOOLEAN, t \in AllowanceTexts}
      [] OTHER -> {emptyParams}

RegimeBandLists ==
    {cfgBands(c, p) : <<c, p>> \in
        UNION {{<<c, p>> : p \in RegimeParams(c)} : c \in CountryKey}}

BandLists == GenericBandLists \cup {TwoBand} \cup RegimeBandLists

\* the default amount entered as a monthly salary
LargeIncome == 14400000

\* small incomes, incomes at, next to and beyond every boundary, a large one
CalcIncomes(bs) ==
    (-1..MaxIncome) \cup {LargeIncome}
    \cup UNION {{bs[i].upto[1] + d : d \in {-1, 0, 1, bs[i].upto[1] \div 2}} :
                  i \in {j \in 1..Len(bs) : bs[j].upto # null}}

InitCalc ==
    /\ UIInit
    /\ bands \in BandLists
    /\ income \in CalcIncomes(bands)
    /\ ret = NoRet
    /\ pc = "call"

Call ==
    /\ pc = "call"
    /\ ret' = calcProgressiveTax(income, bands)
    /\ pc' = "return"
    /\ UNCHANGED <<income, bands, uiVars>>

NextCalc == Call

SpecCalc == InitCalc /\ [][NextCalc]_vars

-----------------------------------------------------------------------------
(* Properties of calcProgressiveTax, under SpecCalc *)

\* upper bounds strictly increasing where present, exactly one unbounded
\* band, which is the last
ValidPartition(bs) ==
    /\ Len(bs) >= 1
    /\ bs[Len(bs)].upto = null
    /\ \A i \in 1..(Len(bs) - 1) : bs[i].upto # null
    /\ \A i, j \in 1..(Len(bs) - 1) : i < j => bs[i].upto[1] < bs[j].upto[1]

RECURSIVE SumAmount(_)
SumAmount(sl) ==
    IF sl = <<>> THEN 0 ELSE sl[1].amount + SumAmount(Tail(sl))

\* value of a tax in 1/2000ths
Scaled(x) == x.w * RateDenominator + x.f

RECURSIVE SumScaledTax(_)
SumScaledTax(sl) ==
    IF sl = <<>> THEN 0 ELSE Scaled(sl[1].tax) + SumScaledTax(Tail(sl))

RECURSIVE SumTax(_)
SumTax(sl) ==
    IF sl = <<>> THEN Money(0)
    ELSE LET rest == SumTax(Tail(sl))
         IN  Norm(sl[1].tax.w + rest.w, sl[1].tax.f + rest.f)

\* C1: for a non-negative income and a valid band partition, or the band
\* list of a regime, the slice amounts add up to the income and the returned
\* tax is the sum of the slices' taxes.
C1_Completeness ==
    (pc = "return" /\ income >= 0
       /\ (ValidPartition(bands) \/ bands \in RegimeBandLists))
    => /\ SumAmount(ret.slices) = income
       /\ ret.tax = SumTax(ret.slices)
       /\ (income < LargeIncome => Scaled(ret.tax) = SumScaledTax(ret.slices))

C1_Witness ==
    /\ pc = "return" /\ bands = indiaNewBands /\ income = 1500001
    /\ Len(ret.slices) = 6
    /\ SumAmount(ret.slices) = income
    /\ Scaled(ret.tax) = SumScaledTax(ret.slices)

\* C2: for [{upto: 100, rate: 0}, {upto: null, rate: 0.1}], income 100 gives
\* tax 0 and nothing in the second band; income 150 gives tax 5 and exactly
\* one slice of amount 50.
C2_BoundaryExact ==
    (pc = "return" /\ bands = TwoBand)
    => /\ income = 100 =>
            /\ ret.tax = Money(0)
            /\ ret.slices = << [amount |-> 100, rate |-> 0, tax |-> Money(0)] >>
       /\ income = 150 =>
            /\ ret.tax = Money(5)
            /\ Cardinality({i \in 1..Len(ret.slices) :
                               ret.slices[i].amount = 50}) = 1
            /\ \A i \in 1..Len(ret.slices) :
                  ret.slices[i].amount = 50 =>
                     ret.slices[i].rate * 10 = RateDenominator

C2_Witness ==
    /\ pc = "return" /\ bands = TwoBand /\ income = 150
    /\ Len(ret.slices) = 2 /\ ret.slices[2].amount = 50
    /\ ret.tax = Money(5)

SliceRatesNonDecreasing(sl) ==
    \A i, j \in 1..Len(sl) : i < j => sl[i].rate <= sl[j].rate

SliceRatesIncreasing(sl) ==
    \A i, j \in 1..Len(sl) : i < j => sl[i].rate < sl[j].rate

BandRatesIncreasing(bs) ==
    \A i, j \in 1..Len(bs) : i < j => bs[i].rate < bs[j].rate

NoEmptySlice(sl) == \A i \in 1..Len(sl) : sl[i].amount > 0

\* C4 as stated: for every band partition and income the slices are in
\* increasing order of rate (read weakly: never decreasing) and none has
\* amount <= 0.
C4_Original ==
    (pc = "return" /\ ValidPartition(bands))
    => SliceRatesNonDecreasing(ret.slices) /\ NoEmptySlice(ret.slices)

\* the slices are the bands that received income, in band order
RECURSIVE IsSubsequence(_, _)
IsSubsequence(a, b) ==
    IF a = <<>> THEN TRUE
    ELSE IF b = <<>> THEN FALSE
    ELSE IF a[1] = b[1] THEN IsSubsequence(Tail(a), Tail(b))
    ELSE IsSubsequence(a, Tail(b))

RatesOf(sq) == [i \in 1..Len(sq) |-> sq[i].rate]

\* C4 amended: for every band list and income the slices come in band order,
\* so their rates increase whenever the rates of the bands increase (as in
\* all four regimes), and no slice has amount <= 0.
C4_SlicesInBandOrder ==
    pc = "return"
    => /\ IsSubsequence(RatesOf(ret.slices), RatesOf(bands))
       /\ (BandRatesIncreasing(bands) => SliceRatesIncreasing(ret.slices))
       /\ NoEmptySlice(ret.slices)

C4_Witness ==
    /\ pc = "return" /\ income > 0
    /\ bands \in RegimeBandLists /\ BandRatesIncreasing(bands)
    /\ Len(ret.slices) >= 2 /\ Len(ret.slices) < Len(bands)
    /\ SliceRatesIncreasing(ret.slices) /\ NoEmptySlice(ret.slices)

\* C6: with the band list fixed, a lower income never gets a higher tax.
C6_Monotone ==
    pc = "return"
    => \A a \in CalcIncomes(bands) :
          a <= income => MLeq(calcProgressiveTax(a, bands).tax, ret.tax)

C6_Witness ==
    /\ pc = "return" /\ bands = usSingleBands /\ income = 100001
    /\ \E a \in CalcIncomes(bands) :
          /\ a < income
          /\ calcProgressiveTax(a, bands).tax # ret.tax
          /\ MLeq(calcProgressiveTax(a, bands).tax, ret.tax)

-----------------------------------------------------------------------------
(* Properties of the component, under Spec and SpecUrl *)

\* the params of the current state with the allowance it had by default
paramsAtOldAllowance == Spread(params, "personalAllowance", 12570)

taxAtOldAllowance ==
    calcProgressiveTax(taxableBase, cfgBands(country, paramsAtOldAllowance)).tax

OnlyFirstBoundMoved ==
    LET old == cfgBands(country, paramsAtOldAllowance)
        new == cfgBands(country, params)
    IN  /\ Len(new) = Len(old)
        /\ old[1].upto = Num(12570) /\ new[1].upto = Num(15000)
        /\ new[1].rate = old[1].rate
        /\ \A i \in 2..Len(old) : new[i] = old[i]

AllowanceRaised ==
    country = "uk" /\ Get(params, "personalAllowance", 12570) = 15000

\* C3 as stated: with the allowance changed from 12570 to 15000 only the first
\* bound moves, and for every taxable income above 12570 and below 50270 the
\* band tax is lower by exactly (15000 - 12570) * 0.20.
C3_Original ==
    (AllowanceRaised /\ 12570 < taxableBase /\ taxableBase < 50270)
    => /\ OnlyFirstBoundMoved
       /\ MSub(taxAtOldAllowance, incomeTax)
             = MulRate(15000 - 12570, Rate(20, 100))

\* C3 amended: the same for every taxable income from 15000 (the new
\* allowance) and below 50270; between 12570 and 15000 the tax falls to zero,
\* a reduction of (income - 12570) * 0.20.
C3_AllowanceShift ==
    AllowanceRaised
    => /\ OnlyFirstBoundMoved
       /\ (15000 <= taxableBase /\ taxableBase < 50270)
            => MSub(taxAtOldAllowance, incomeTax)
                  = MulRate(15000 - 12570, Rate(20, 100))
       /\ (12570 < taxableBase /\ taxableBase < 15000)
            => /\ incomeTax = Money(0)
               /\ taxAtOldAllowance
                     = MulRate(taxableBase - 12570, Rate(20, 100))

C3_Witness ==
    /\ AllowanceRaised /\ ~effectPending
    /\ 15000 <= taxableBase /\ taxableBase < 50270
    /\ incomeTax # Money(0)
    /\ MSub(taxAtOldAllowance, incomeTax) = Money(486)

\* C5: the band list of the selected regime under the current params has
\* strictly increasing upper bounds and exactly one unbounded band, the last.
C5_BandsValid == ValidPartition(cfgBands(country, params))

DeductionValues == {NumberOrZero(t) : t \in DeductionTexts}

withDeductions(sd, od) ==
    [state EXCEPT !.standardDeduction = sd, !.otherDeductions = od]

\* C7: with the gross income and the params unchanged, any other deductions
\* give the same extras list (labels, amounts, order).
C7_ExtrasFromGross ==
    \A sd, od \in DeductionValues :
        compute(withDeductions(sd, od)).extras = extras

C7_Witness ==
    /\ country \in {"us", "uk"} /\ ~effectPending
    /\ extras # <<>>
    /\ deductions > 0 /\ taxableBase > 0
    /\ compute(withDeductions(0, 0)).extras = extras
    /\ compute(withDeductions(0, 0)).incomeTax # incomeTax

\* C8: loading the page from a URL written by Save URL State gives inputs
\* whose computed result is the result of the inputs that were saved.
C8_RoundTrip ==
    (pc = "mounted" /\ url # NoUrl)
    => result = compute(JSONparse(atob(url)))

\* what Save URL State writes decodes to the inputs it was written from
SavedStateDecodes ==
    [][WriteQuery => JSONparse(atob(url')) = state]_vars

NonNegative(x) == MLeq(Money(0), x)

\* C9: deductions, taxable base, band tax, every extra, total tax and net
\* annual income are all >= 0 for every input of the form.
C9_NonNegative ==
    /\ deductions >= 0
    /\ taxableBase >= 0
    /\ NonNegative(incomeTax)
    /\ \A i \in 1..Len(extras) : NonNegative(extras[i].amount)
    /\ NonNegative(totalTax)
    /\ NonNegative(netAnnual)

FICAIncluded == country = "us" /\ Get(params, "includeFICA", FALSE)

\* C10: with FICA included the Social Security extra is 0.062 * min(gross,
\* 168600), so 168600 * 0.062 = 10453.2 at a gross of 200000 and not 12400,
\* and the Medicare extra is 0.0145 * gross.
C10_CappedSurcharge ==
    FICAIncluded
    => /\ Len(extras) = 2
       /\ extras[1].label = "Social Security (6.2%)"
       /\ extras[2].label = "Medicare (1.45%)"
       /\ Scaled(extras[1].amount)            \* 0.062 = 124/2000
             = IF grossAnnual <= 168600
               THEN grossAnnual * 124
               ELSE 168600 * 124
       /\ grossAnnual = 200000
            => /\ extras[1].amount = [w |-> 10453, f |-> 400]
               /\ extras[1].amount # Money(12400)
       /\ Scaled(extras[2].amount) = grossAnnual * 29   \* 0.0145 = 29/2000

C10_Witness ==
    /\ FICAIncluded /\ ~effectPending
    /\ grossAnnual = 200000
    /\ extras[1].amount = [w |-> 10453, f |-> 400]
    /\ extras[2].amount = Money(2900)

-----------------------------------------------------------------------------
(* The change of regime, under Spec *)

\* the defaults of the regime table, written out
ExpectedDefaultParams(c) ==
    IF c = "us" THEN [filing |-> "single", includeFICA |-> TRUE]
    ELSE IF c = "uk" THEN [includeNI |-> TRUE, personalAllowance |-> 12570]
    ELSE emptyParams

\* C11: a step that selects a different regime leaves the amount and the
\* period unchanged and schedules the country-change effect; the step in which
\* the effect runs leaves the regime, the amount and the period unchanged and
\* sets the deductions and the params to the defaults of the selected regime
\* (params = {} for a regime without defaultParams).
C11_RegimeChangeResets ==
    [][ /\ (country' # country)
            => /\ effectPending'
               /\ amount' = amount /\ period' = period
        /\ (effectPending /\ ~effectPending')
            => /\ country' = country
               /\ amount' = amount /\ period' = period
               /\ standardDeduction' = 0
               /\ otherDeductions' = 0
               /\ params' = ExpectedDefaultParams(country) ]_vars

\* the regime has been changed to the UK after the amount and the period were
\* edited, the effect has run, and the edits are still there
C11_Witness ==
    /\ country = "uk" /\ ~effectPending
    /\ params = [includeNI |-> TRUE, personalAllowance |-> 12570]
    /\ standardDeduction = 0 /\ otherDeductions = 0
    /\ amount = 40000 /\ period = "monthly"

====
